---- MODULE Spec2Model ----
(***************************************************************************)
(* Progressive sample accumulation and worker dispatch of the browser      *)
(* front end (src/browser/src/App.tsx, worker.ts, render.ts and the two    *)
(* earlier revisions of App.tsx kept as src/unnamed/part_000, part_001).   *)
(*                                                                         *)
(* JavaScript numbers are modelled as records: a finite number [t="num"],  *)
(* NaN, or a signed infinity.  All finite values of the model are small    *)
(* integers, for which Float32 storage and double arithmetic are exact     *)
(* (x / n * 255 was compared with the exact quotient for the whole range   *)
(* of the model).                                                          *)
(***************************************************************************)
EXTENDS Integers, Sequences, FiniteSets, TLC

VARIABLES
    variant,       \* which revision of App is mounted: "sync" (part_000) or "worker" (App.tsx)
    state,         \* useState<State>: committed value of `state`
    numSamples,    \* useState(0): committed value of `numSamples`
    updateQueue,   \* React's queue of state updates not yet rendered
    buffer,        \* buffer.current (Float32Array)
    merges,        \* history: number of add() results stored into buffer.current
    canvas,        \* last ImageData put on the canvas; NoImage before
    lastCall,      \* history: arguments of the last toImageBuffer call of the effect
    effectRuns,    \* number of times the mount effect has run
    mainPc,        \* position of the main context: "idle" or inside callWorker
    workers,       \* the Worker objects created so far, in creation order
    mergedSamples, \* history: the samples merged into buffer.current, in merge order
    sourceCalls,   \* history: calls of create_spectrum_image, per context
    pure           \* a single call of add / toImageBuffer on drawn arguments

vars == <<variant, state, numSamples, updateQueue, buffer, merges, canvas,
          lastCall, effectRuns, mainPc, workers, mergedSamples, sourceCalls, pure>>

appVars == <<state, numSamples, updateQueue, buffer, merges, canvas, lastCall,
             mergedSamples>>

-----------------------------------------------------------------------------
(* Bounds *)

\* width and height of the image (1280 x 720 in the source), scaled down
width == 2
height == 1
\* how often the mount effect runs on one App instance (StrictMode, fast refresh)
MaxEffects == 3
\* longest array and largest sample count drawn for a single call of a pure function
MaxLen == 2
MaxCount == 3

\* channels per pixel (RGBA)
Channels == 4

BufLen == width * height * Channels

-----------------------------------------------------------------------------
(* JavaScript numbers *)

Num(n) == [t |-> "num", v |-> n]
NaN == [t |-> "nan", v |-> 0]
Infinity == [t |-> "inf", v |-> 1]
NegInfinity == [t |-> "inf", v |-> -1]

IsNum(x) == x.t = "num"

\* x + y of two numbers
Plus(x, y) ==
    IF x.t = "nan" \/ y.t = "nan" THEN NaN
    ELSE IF x.t = "inf" /\ y.t = "inf" THEN (IF x.v = y.v THEN x ELSE NaN)
    ELSE IF x.t = "inf" THEN x
    ELSE IF y.t = "inf" THEN y
    ELSE Num(x.v + y.v)

\* x / n for a count n >= 0
Divide(x, n) ==
    IF x.t = "nan" THEN [q |-> NaN, d |-> 1]
    ELSE IF x.t = "inf" THEN [q |-> x, d |-> 1]
    ELSE IF n = 0 THEN
        [q |-> IF x.v > 0 THEN Infinity ELSE IF x.v < 0 THEN NegInfinity ELSE NaN, d |-> 1]
    ELSE [q |-> x, d |-> n]

\* Math.round of the rational n / d, d > 0 (half up), in place of Math.floor
MathRound(n, d) == (2 * n + d) \div (2 * d)

\* Math.floor of the rational n / d, d > 0
MathFloor(n, d) == n \div d

\* Math.floor(r * 255) of a quotient r = q / d; NaN and the infinities stay
MathFloorTimes255(r) ==
    IF IsNum(r.q) THEN Num(MathFloor(r.q.v * 255, r.d)) ELSE r.q

\* conversion of one number to an element of a Uint8ClampedArray
ToUint8Clamp(x) ==
    IF x.t = "nan" THEN 0
    ELSE IF x.t = "inf" THEN (IF x.v > 0 THEN 255 ELSE 0)
    ELSE IF x.v < 0 THEN 0
    ELSE IF x.v > 255 THEN 255
    ELSE x.v

\* significant bits of a Float32Array element
MantissaBits == 24

Abs(n) == IF n < 0 THEN -n ELSE n

\* the spacing of the numbers with p significant bits around the magnitude m
RECURSIVE Ulp(_, _)
Ulp(m, p) == IF m < 2^p THEN 1 ELSE 2 * Ulp(m \div 2, p)

\* the integer n rounded to p significant bits, ties to even
RoundToBits(n, p) ==
    LET m == Abs(n)
        u == Ulp(m, p)
        q == m \div u
        r == m % u
        up == (2 * r > u) \/ (2 * r = u /\ q % 2 = 1)
        mag == (IF up THEN q + 1 ELSE q) * u
    IN  IF n < 0 THEN -mag ELSE mag

\* a store into an array of half the precision
FroundNarrow(n) == RoundToBits(n, MantissaBits \div 2)

\* the value a Float32Array element takes when the number n is stored in it
Fround(n) == RoundToBits(n, MantissaBits)

ToFloat32(x) == IF IsNum(x) THEN Num(Fround(x.v)) ELSE x

\* typed arrays
Float32Array(elems) == [kind |-> "Float32Array", elems |-> elems]
Uint8ClampedArray(elems) == [kind |-> "Uint8ClampedArray", elems |-> elems]

Zeros(n) == Float32Array([i \in 1..n |-> Num(0)])

-----------------------------------------------------------------------------
(* The pure functions of App.tsx and render.ts *)

\* an index slip: every element of a gets the first element of b
AddElemFirst(a, b, i) ==
    Plus(a.elems[i], IF 1 <= Len(b.elems) THEN b.elems[1] ELSE NaN)

\* a[i] + b[i], where b[i] is undefined beyond the end of b
AddElem(a, b, i) ==
    Plus(a.elems[i], IF i <= Len(b.elems) THEN b.elems[i] ELSE NaN)

add(a, b) == Float32Array([i \in 1..Len(a.elems) |-> ToFloat32(AddElem(a, b, i))])

toImageBuffer(buf, n) ==
    Uint8ClampedArray(
        [i \in 1..Len(buf.elems) |->
            ToUint8Clamp(MathFloorTimes255(Divide(buf.elems[i], n)))])

\* a map that writes each result back into its receiver
MapInPlace(receiver, mapped) == Float32Array(mapped)

\* the receiver of buffer.map(...) after the call: map fills a new array
MapReceiver(receiver, mapped) == receiver

\* the argument `buffer` of toImageBuffer(buffer, numSamples) after the call
BufferAfterToImageBuffer(buf, n) ==
    MapReceiver(buf,
        [i \in 1..Len(buf.elems) |-> MathFloorTimes255(Divide(buf.elems[i], n))])

\* renderImage(width, height), given the float image create_spectrum_image returned
renderImage(floatImage) ==
    Uint8ClampedArray(
        [i \in 1..Len(floatImage.elems) |->
            ToUint8Clamp(MathFloorTimes255(Divide(floatImage.elems[i], 1)))])

-----------------------------------------------------------------------------
(* The sample source create_spectrum_image(width, height): an external     *)
(* function; its results are drawn from a family of float images of        *)
(* width * height * 4 elements.                                            *)

SampleValues == {-1, 0, 1, 2}

Flat(v) == Float32Array([i \in 1..BufLen |-> Num(v)])
\* the first half of the elements at 1, the rest at 0, and the reverse
FirstLit == Float32Array([i \in 1..BufLen |-> Num(IF 2 * i <= BufLen THEN 1 ELSE 0)])
SecondLit == Float32Array([i \in 1..BufLen |-> Num(IF 2 * i <= BufLen THEN 0 ELSE 1)])

SampleBuffers == {Flat(v) : v \in SampleValues} \cup {FirstLit, SecondLit}

\* the results drawn for the calls made in a worker
WorkerSampleBuffers == {Flat(1), FirstLit}

-----------------------------------------------------------------------------
(* React state: setState / setNumSamples queue an update, the next render  *)
(* of App applies the queue in order.                                      *)

SetState(v) == [hook |-> "state", arg |-> v]
\* an updater that counts a merge twice
IncrementTwice(n) == n + 2

\* setNumSamples((n) => n + 1)
Increment(n) == n + 1
SetNumSamplesUpdater == [hook |-> "numSamples", arg |-> "n + 1"]

RECURSIVE ApplyState(_, _)
ApplyState(s, q) ==
    IF q = <<>> THEN s
    ELSE ApplyState(IF Head(q).hook = "state" THEN Head(q).arg ELSE s, Tail(q))

RECURSIVE ApplyNumSamples(_, _)
ApplyNumSamples(n, q) ==
    IF q = <<>> THEN n
    ELSE ApplyNumSamples(IF Head(q).hook = "numSamples" THEN Increment(n) ELSE n, Tail(q))

\* the value of `numSamples` bound in the closure of the mount effect: the
\* effect has no dependencies, so it is the one created by the first render
ClosureNumSamples == 0

NoImage == [kind |-> "none", elems |-> <<>>]
NoCall == [called |-> FALSE, n |-> 0, merges |-> 0]
PureIdle == [fn |-> "none", a |-> NoImage, b |-> NoImage, n |-> 0, ret |-> NoImage]

-----------------------------------------------------------------------------
(* Worker objects and the events between the two contexts *)

\* References to array objects: the context whose heap holds the object, the
\* worker whose handler created it (or its original), and the handler run
NoRef == [ctx |-> "none", w |-> 0, run |-> 0]
WorkerRef(w, run) == [ctx |-> "worker", w |-> w, run |-> run]

\* posting the very object, as a store shared between the contexts would be
ShareReference(ref) == ref

\* postMessage(image) without a transfer list: the receiver gets a copy, a
\* new object in its own heap; the sender's object is left as it is
StructuredClone(ref) == [ref EXCEPT !.ctx = "main"]

Request == [w |-> width, h |-> height]
MessageEvent(data) == [type |-> "message", data |-> data, ref |-> NoRef]
ErrorEvent == [type |-> "error", data |-> NoImage, ref |-> NoRef]

EventTypes == {"message", "error"}
NoneOfEither == [t \in EventTypes |-> 0]

\* new Worker(): the script is loaded, nothing sent or received yet
NewWorker ==
    [inbox |-> <<>>,         \* requests posted to the worker, not yet handled
     toMain |-> <<>>,        \* events queued for the Worker object on the main context
     listeners |-> NoneOfEither,  \* listeners registered on the Worker object, per event type
     dispatched |-> NoneOfEither, \* history: events dispatched on the Worker object, per type
     handled |-> NoneOfEither,    \* history: listener calls (console.log(event)), per type
     floatImage |-> NoImage,      \* history: the float image of the last handler run
     threw |-> 0,                 \* history: handler runs ended by an exception
     pc |-> "idle",               \* "idle", or "posted": in the handler, after postMessage
     image |-> NoRef,             \* the array the running handler holds in `image`
     runs |-> 0,                  \* history: handler runs started
     received |-> {},             \* history: the arrays of the events dispatched on main
     unheard |-> 0,               \* history: results posted before a message listener was added
     terminated |-> FALSE]        \* terminate() or close() was called

WorkerIds == 1..Len(workers)

\* a handler that posts its image twice
PostMessageTwice(image) == <<MessageEvent(image), MessageEvent(image)>>

\* self.postMessage(image): what the handler queues for the main context
PostMessage(image) == <<MessageEvent(image)>>

\* the outcome of a request as the transport produces it
Completed(w) == w \in WorkerIds /\ workers[w].dispatched["message"] > 0
Lost(w) == w \in WorkerIds /\ workers[w].threw > 0
\* the failure of a request reached a listener on the main context
FailureSurfaced(w) == w \in WorkerIds /\ workers[w].handled["error"] > 0

RECURSIVE Notifications(_)
Notifications(ws) ==
    IF ws = <<>> THEN 0 ELSE Head(ws).handled["message"] + Notifications(Tail(ws))

\* the sample count once the queued updates are rendered
SampleCount == ApplyNumSamples(numSamples, updateQueue)

-----------------------------------------------------------------------------
AppInit ==
    /\ variant \in {"sync", "worker"}
    /\ state = "initializing"
    /\ numSamples = 0
    /\ updateQueue = <<>>
    /\ buffer = Zeros(BufLen)
    /\ merges = 0
    /\ canvas = NoImage
    /\ lastCall = NoCall
    /\ effectRuns = 0
    /\ mainPc = "idle"
    /\ workers = <<>>
    /\ mergedSamples = <<>>
    /\ sourceCalls = [main |-> 0, worker |-> 0]

Init ==
    /\ AppInit
    /\ pure = PureIdle

\* the effect of part_000: render one sample on the main context and merge it
EffectBody(newSamples, hasCtx) ==
    /\ variant = "sync"
    /\ mainPc = "idle"
    /\ effectRuns < MaxEffects
    /\ LET merged == add(buffer, newSamples)
           queued == updateQueue \o <<SetState("rendering"), SetNumSamplesUpdater>>
       IN  /\ buffer' = IF hasCtx
                         THEN BufferAfterToImageBuffer(merged, ClosureNumSamples)
                         ELSE merged
           /\ merges' = merges + 1
           /\ mergedSamples' = Append(mergedSamples, newSamples)
           /\ sourceCalls' = [sourceCalls EXCEPT !.main = @ + 1]
           /\ IF hasCtx
              THEN /\ canvas' = toImageBuffer(merged, ClosureNumSamples)
                   /\ lastCall' = [called |-> TRUE, n |-> ClosureNumSamples,
                                   merges |-> merges + 1]
                   /\ updateQueue' = Append(queued, SetState("done"))
              ELSE /\ updateQueue' = queued
                   /\ UNCHANGED <<canvas, lastCall>>
    /\ effectRuns' = effectRuns + 1
    /\ UNCHANGED <<variant, state, numSamples, mainPc, workers, pure>>

EffectSync ==
    \E newSamples \in SampleBuffers, hasCtx \in BOOLEAN : EffectBody(newSamples, hasCtx)

\* a call that posts its request a second time
PostRequestTwice(worker) == [worker EXCEPT !.inbox = @ \o <<Request, Request>>]

\* worker.postMessage([width, height])
PostRequest(worker) == [worker EXCEPT !.inbox = Append(@, Request)]

\* the effect of App.tsx up to worker.postMessage in callWorker
EffectCallWorker ==
    /\ variant = "worker"
    /\ mainPc = "idle"
    /\ effectRuns < MaxEffects
    /\ updateQueue' = Append(updateQueue, SetState("rendering"))
    /\ workers' = Append(workers, PostRequest(NewWorker))
    /\ mainPc' = "callWorker"
    /\ effectRuns' = effectRuns + 1
    /\ UNCHANGED <<variant, state, numSamples, buffer, merges, canvas, lastCall,
                   mergedSamples, sourceCalls, pure>>

\* callWorker's worker.addEventListener("message", ...) on the worker just created
CallWorkerAddListener ==
    /\ mainPc = "callWorker"
    /\ workers' = [workers EXCEPT ![Len(workers)].listeners["message"] = @ + 1]
    /\ mainPc' = "idle"
    /\ UNCHANGED <<variant, appVars, effectRuns, sourceCalls, pure>>

\* App is rendered again with the queued updates applied
Render ==
    /\ mainPc = "idle"
    /\ updateQueue # <<>>
    /\ state' = ApplyState(state, updateQueue)
    /\ numSamples' = ApplyNumSamples(numSamples, updateQueue)
    /\ updateQueue' = <<>>
    /\ UNCHANGED <<variant, buffer, merges, canvas, lastCall, effectRuns, mainPc,
                   workers, mergedSamples, sourceCalls, pure>>

\* self.onmessage of worker.ts, create_spectrum_image returning floatImage
\* the events of one postMessage call, each carrying what the receiver gets
\* for the sender's array ref
Posted(events, ref) ==
    [k \in 1..Len(events) |-> [events[k] EXCEPT !.ref = StructuredClone(ref)]]

WorkerOnMessage(w) ==
    /\ w \in WorkerIds
    /\ workers[w].pc = "idle"
    /\ workers[w].inbox # <<>>
    /\ Head(workers[w].inbox).w = width /\ Head(workers[w].inbox).h = height
    /\ \E floatImage \in WorkerSampleBuffers :
        LET image == WorkerRef(w, workers[w].runs + 1)
        IN  workers' = [workers EXCEPT
                ![w].inbox = Tail(@),
                ![w].runs = @ + 1,
                ![w].floatImage = floatImage,
                ![w].image = image,
                ![w].unheard = IF workers[w].listeners["message"] = 0 THEN @ + 1 ELSE @,
                ![w].toMain = @ \o Posted(PostMessage(renderImage(floatImage)), image),
                ![w].pc = "posted"]
    /\ sourceCalls' = [sourceCalls EXCEPT !.worker = @ + 1]
    /\ UNCHANGED <<variant, appVars, effectRuns, mainPc, pure>>

\* self.onmessage of worker.ts, create_spectrum_image throwing: nothing is
\* posted, and an error event is fired at the Worker object
WorkerOnMessageThrows(w) ==
    /\ w \in WorkerIds
    /\ workers[w].pc = "idle"
    /\ workers[w].inbox # <<>>
    /\ workers' = [workers EXCEPT
            ![w].inbox = Tail(@),
            ![w].runs = @ + 1,
            ![w].threw = @ + 1,
            ![w].toMain = Append(@, ErrorEvent)]
    /\ sourceCalls' = [sourceCalls EXCEPT !.worker = @ + 1]
    /\ UNCHANGED <<variant, appVars, effectRuns, mainPc, pure>>

\* the handler of worker.ts returns after postMessage: `image` goes out of scope
WorkerReturn(w) ==
    /\ w \in WorkerIds
    /\ workers[w].pc = "posted"
    /\ workers' = [workers EXCEPT ![w].pc = "idle", ![w].image = NoRef]
    /\ UNCHANGED <<variant, appVars, effectRuns, mainPc, sourceCalls, pure>>

\* an event loop that dispatches an event in the middle of a running task
Preemptive(pc) == TRUE

\* the main context takes the next event only when no task is running on it:
\* callWorker, once started, runs to its end first
RunToCompletion(pc) == pc = "idle"

\* the main context, idle, dispatches the next event of a Worker object to
\* the listeners registered for its type: the "message" listener of
\* callWorker logs the event; nothing listens for "error"
DispatchEvent(w) ==
    /\ w \in WorkerIds
    /\ RunToCompletion(mainPc)
    /\ workers[w].toMain # <<>>
    /\ LET ev == Head(workers[w].toMain)
       IN  workers' = [workers EXCEPT
               ![w].toMain = Tail(@),
               ![w].dispatched[ev.type] = @ + 1,
               ![w].received = IF ev.type = "message" THEN @ \cup {ev.ref} ELSE @,
               ![w].handled[ev.type] = @ + workers[w].listeners[ev.type]]
    /\ UNCHANGED <<variant, appVars, effectRuns, mainPc, sourceCalls, pure>>

Next ==
    \/ EffectSync
    \/ EffectCallWorker
    \/ CallWorkerAddListener
    \/ Render
    \/ \E w \in 1..MaxEffects : WorkerOnMessage(w)
    \/ \E w \in 1..MaxEffects : WorkerOnMessageThrows(w)
    \/ \E w \in 1..MaxEffects : WorkerReturn(w)
    \/ \E w \in 1..MaxEffects : DispatchEvent(w)

Spec == Init /\ [][Next]_vars

\* Both event loops run every task queued for them: the main context renders
\* queued updates, finishes callWorker and dispatches queued events; a worker
\* runs its handler for every request in its inbox (returning or throwing).
FairSpec ==
    /\ Spec
    /\ WF_vars(CallWorkerAddListener)
    /\ WF_vars(Render)
    /\ \A w \in 1..MaxEffects :
        /\ WF_vars(WorkerOnMessage(w) \/ WorkerOnMessageThrows(w))
        /\ WF_vars(WorkerReturn(w))
        /\ WF_vars(DispatchEvent(w))

-----------------------------------------------------------------------------
(* Single calls of the pure functions on drawn arguments *)

PureValues == {Num(-1), Num(0), Num(1), Num(3), NaN}

FloatArrays ==
    UNION {{Float32Array(e) : e \in [1..k -> PureValues]} : k \in 0..MaxLen}

PureInputs ==
    {[fn |-> "none", a |-> a, b |-> b, n |-> n, ret |-> NoImage] :
        a \in FloatArrays, b \in FloatArrays, n \in 0..MaxCount}

PureInit ==
    /\ AppInit
    /\ variant = "sync"
    /\ pure \in PureInputs

CallAdd ==
    /\ pure.fn = "none"
    /\ pure' = [pure EXCEPT !.fn = "add", !.ret = add(pure.a, pure.b)]
    /\ UNCHANGED <<variant, appVars, effectRuns, mainPc, workers, sourceCalls>>

CallToImageBuffer ==
    /\ pure.fn = "none"
    /\ pure' = [pure EXCEPT !.fn = "toImageBuffer",
                             !.ret = toImageBuffer(pure.a, pure.n),
                             !.a = BufferAfterToImageBuffer(pure.a, pure.n)]
    /\ UNCHANGED <<variant, appVars, effectRuns, mainPc, workers, sourceCalls>>

PureNext == CallAdd \/ CallToImageBuffer

PureSpec == PureInit /\ [][PureNext]_vars

-----------------------------------------------------------------------------
(* The App of part_000 with a sample source whose values reach the         *)
(* precision of a Float32Array element.                                    *)

MaxExact == 2^MantissaBits

WideValues == {1, MaxExact, -MaxExact}

WideSampleBuffers == {Flat(v) : v \in WideValues} \cup {FirstLit, SecondLit}

WideInit ==
    /\ Init
    /\ variant = "sync"

EffectSyncWide ==
    \E newSamples \in WideSampleBuffers, hasCtx \in BOOLEAN : EffectBody(newSamples, hasCtx)

WideNext == EffectSyncWide \/ Render

WideSpec == WideInit /\ [][WideNext]_vars

-----------------------------------------------------------------------------
(* Claims *)

\* C1: whenever the normalized image is computed, the sample count used for
\* the division is the number of merges the sum contains.
C1_SumAndCountAgree ==
    lastCall.called => lastCall.n = lastCall.merges

\* C2: once requests are dispatched, the number of merges performed equals
\* the number of completion notifications the main context has received.
C2_MergedExactlyOnce ==
    workers # <<>> => merges = Notifications(workers)

\* C3: requesting the display image with a sample count of 0 fails with
\* NoSamplesYet and returns no image.
C3_NoSamplesYet ==
    (lastCall.called /\ lastCall.n = 0) => canvas.kind = "NoSamplesYet"

\* C4: merging a buffer whose length differs from the sum's fails with
\* DimensionMismatch; nothing is truncated, padded or partially added.
C4_DimensionMismatch ==
    (pure.fn = "add" /\ Len(pure.a.elems) # Len(pure.b.elems))
        => pure.ret.kind = "DimensionMismatch"

\* clamp(round(x / n * 255), 0, 255), rounding half up
ClampRoundHalfUp(x, n) ==
    LET r == (2 * 255 * x + n) \div (2 * n)
    IN  IF r < 0 THEN 0 ELSE IF r > 255 THEN 255 ELSE r

C6_EveryRequestLeavesPending ==
    \A w \in 1..MaxEffects :
        [](w \in WorkerIds => <>(Completed(w) \/ FailureSurfaced(w)))

\* C7: a request produces at most one completion notification, and once it is
\* Completed or Lost no request of it is left to handle and no result of it
\* is left to deliver.
C7_AtMostOneCompletion ==
    \A w \in WorkerIds :
        /\ workers[w].dispatched["message"] <= 1
        /\ workers[w].handled["message"] <= 1
        /\ (Completed(w) \/ Lost(w)) =>
            /\ workers[w].inbox = <<>>
            /\ \A k \in 1..Len(workers[w].toMain) :
                   workers[w].toMain[k].type # "message"
        /\ ~(Completed(w) /\ Lost(w))

\* three requests, one lost, the two others completed and notified
C7_Witness ==
    /\ Len(workers) = 3
    /\ Lost(2)
    /\ Completed(1) /\ workers[1].handled["message"] = 1
    /\ Completed(3) /\ workers[3].handled["message"] = 1

\* C8: once some requests are Lost and all others Completed, the sample count
\* and the number of merges equal the number of Completed requests.
C8_LostNeverMerged ==
    ((\E w \in WorkerIds : Lost(w)) /\ (\A w \in WorkerIds : Lost(w) \/ Completed(w)))
        => /\ SampleCount = Cardinality({w \in WorkerIds : Completed(w)})
           /\ merges = Cardinality({w \in WorkerIds : Completed(w)})

\* C9: every response a worker sends is the float image the sample source
\* produced, width * height * 4 floats, unconverted.
C9_RawFloatResponse ==
    \A w \in WorkerIds :
        \A k \in 1..Len(workers[w].toMain) :
            workers[w].toMain[k].type = "message" =>
                /\ workers[w].toMain[k].data.kind = "Float32Array"
                /\ Len(workers[w].toMain[k].data.elems) = BufLen
                /\ workers[w].toMain[k].data = workers[w].floatImage

\* C10: the sample count is the number of merges performed: 0 at the start,
\* one more per merge; the committed numSamples is that number whenever no
\* update waits for a render.
C10_CountEqualsMerges ==
    /\ SampleCount = merges
    /\ numSamples <= merges
    /\ updateQueue = <<>> => numSamples = merges

\* two merges done and rendered
C10_Witness ==
    /\ merges = 2
    /\ numSamples = 2
    /\ updateQueue = <<>>

\* the exact sum of element i over a sequence of samples
RECURSIVE ExactSum(_, _)
ExactSum(samples, i) ==
    IF samples = <<>> THEN 0
    ELSE ExactSum(SubSeq(samples, 1, Len(samples) - 1), i) + samples[Len(samples)].elems[i].v

\* the sum of element i in merge order, each addition rounded to Float32
RECURSIVE RunningSum(_, _)
RunningSum(samples, i) ==
    IF samples = <<>> THEN 0
    ELSE RoundToBits(RunningSum(SubSeq(samples, 1, Len(samples) - 1), i)
                        + samples[Len(samples)].elems[i].v, MantissaBits)

\* every partial sum of element i, in the order given, is exact in Float32
ExactlySummable(samples, i) ==
    \A k \in 0..Len(samples) : Abs(ExactSum(SubSeq(samples, 1, k), i)) <= MaxExact

RECURSIVE MergeAll(_)
MergeAll(samples) ==
    IF samples = <<>> THEN Zeros(BufLen)
    ELSE add(MergeAll(SubSeq(samples, 1, Len(samples) - 1)), samples[Len(samples)])

\* the samples in the arrival order p
Reorder(samples, p) == [k \in 1..Len(samples) |-> samples[p[k]]]

ArrivalOrders == Permutations(1..Len(mergedSamples))

\* the values the samples have at one index, over all indexes
Columns(samples) ==
    {[k \in 1..Len(samples) |-> samples[k].elems[i].v] : i \in 1..BufLen}

RECURSIVE SumOf(_)
SumOf(values) ==
    IF values = <<>> THEN 0 ELSE SumOf(SubSeq(values, 1, Len(values) - 1)) + values[Len(values)]

\* no addition of the merges of these samples, in this order, is rounded:
\* at every index all partial sums are exact in Float32
NoRounding(samples) ==
    \A column \in Columns(samples), k \in 0..Len(samples) :
        Abs(SumOf(SubSeq(column, 1, k))) <= MaxExact

\* C12 as stated: merging the same samples in any other arrival order gives
\* the same sample count and the same sum (and with them the same display
\* image, a function of the two).
C12_OrderIndependent ==
    \A p \in ArrivalOrders :
        /\ Len(Reorder(mergedSamples, p)) = SampleCount
        /\ MergeAll(Reorder(mergedSamples, p)) = buffer

\* C12 as amended: the sample count is the same in every arrival order, and
\* the sum (and with it the display image) is the same in every arrival order
\* in which, as in the order merged, no addition is rounded.
C12_OrderIndependentWhenExact ==
    /\ \A p \in ArrivalOrders : Len(Reorder(mergedSamples, p)) = SampleCount
    /\ NoRounding(mergedSamples) =>
        \A p \in ArrivalOrders :
            NoRounding(Reorder(mergedSamples, p))
                => MergeAll(Reorder(mergedSamples, p)) = buffer

\* three different samples merged without rounding, with other exact orders
C12_Witness ==
    /\ mergedSamples = <<Flat(-MaxExact), Flat(1), Flat(MaxExact)>>
    /\ buffer = Flat(1)
    /\ NoRounding(mergedSamples)
    /\ NoRounding(<<Flat(-MaxExact), Flat(MaxExact), Flat(1)>>)

\* C13: callWorker hands its request to a worker and returns while the
\* request is still pending, and create_spectrum_image never runs on the
\* main context.
C13_DispatchOffMain ==
    /\ mainPc = "callWorker" =>
           (~Completed(Len(workers)) /\ ~FailureSurfaced(Len(workers)))
    /\ sourceCalls.main = 0

\* the arrays the worker context can reach: what running handlers hold
WorkerAccessible == {workers[w].image : w \in WorkerIds} \ {NoRef}

\* the arrays the main context can reach: those of the message events queued
\* for it or dispatched on it
MainAccessible ==
    UNION {{workers[w].toMain[k].ref : k \in 1..Len(workers[w].toMain)}
              \cup workers[w].received : w \in WorkerIds} \ {NoRef}

\* the worker's array of which the main context's array ref is the copy
Original(ref) == [ref EXCEPT !.ctx = "worker"]

C15_PureRead ==
    [][pure'.fn = "toImageBuffer" => (pure'.a = pure.a /\ pure'.n = pure.n)]_vars

\* toImageBuffer has returned an image for a non-empty sum and a positive
\* count, the image differing from the sum element by element
C15_Witness ==
    /\ pure.fn = "toImageBuffer"
    /\ pure.n > 0
    /\ pure.a.elems # <<>>
    /\ Len(pure.ret.elems) = Len(pure.a.elems)
    /\ \A i \in 1..Len(pure.a.elems) : Num(pure.ret.elems[i]) # pure.a.elems[i]

\* C16: although callWorker adds its message listener after posting the
\* request, every response dispatched on the main context reaches that
\* listener: no event is dispatched while callWorker is still running.
C16_ResponseNeverMissed ==
    /\ \A w \in WorkerIds :
        /\ workers[w].handled["message"] = workers[w].dispatched["message"]
        /\ workers[w].dispatched["message"] > 0 => workers[w].listeners["message"] = 1
    /\ mainPc = "callWorker" =>
        /\ workers[Len(workers)].listeners["message"] = 0
        /\ workers[Len(workers)].dispatched["message"] = 0

\* a worker posted its result before callWorker had added the listener, and
\* the listener was called with it all the same
C16_Witness ==
    \E w \in WorkerIds :
        /\ workers[w].unheard = 1
        /\ workers[w].dispatched["message"] = 1
        /\ workers[w].handled["message"] = 1

\* the requests a worker has been sent: those waiting and those handled
RequestsReceived(w) == Len(workers[w].inbox) + workers[w].runs

\* C17: after n calls of callWorker there are n workers, none terminated,
\* each of which was sent exactly one request, and the number of workers
\* never decreases.
C17_OneWorkerPerCall ==
    /\ [](variant = "worker" =>
            /\ Len(workers) = effectRuns
            /\ \A w \in WorkerIds :
                /\ ~workers[w].terminated
                /\ RequestsReceived(w) = 1)
    /\ [][Len(workers') >= Len(workers)]_vars

\* callWorker has been called MaxEffects times and every worker has run its
\* handler
C17_Witness ==
    /\ variant = "worker"
    /\ effectRuns = MaxEffects
    /\ Len(workers) = MaxEffects
    /\ mainPc = "idle"
    /\ \A w \in WorkerIds : workers[w].runs = 1 /\ workers[w].pc = "idle"

====
